---- MODULE Spec2Model ----
(***************************************************************************)
(* A model of scripts/update_calendar.py: the ICS event extractor          *)
(* (filter_events, parse_dtstart, annotate_source), the Eastern-to-UTC     *)
(* normalizer, the FOMC page scraper and the main pipeline.                *)
(*                                                                         *)
(* A text line is a record [head, text, val]:                              *)
(*   head  the leading characters of the line that the code tests with     *)
(*         startswith (a property name with its qualifier and colon, or a  *)
(*         block marker);                                                  *)
(*   text  the free text after the head ("" when there is none);           *)
(*   val   the value after the first colon, as strptime sees it: a form    *)
(*         ("date" YYYYMMDD, "naive" YYYYMMDDTHHMMSS, "utc" ...Z, "text"   *)
(*         anything else) and the numeric fields.                          *)
(* A datetime is a record [y, m, d, hh, mm, ss]; None is the all-zero one  *)
(* (Python's years start at 1).                                            *)
(***************************************************************************)
EXTENDS Integers, Sequences, FiniteSets, TLC

VARIABLES NOW, flt, ann, nrm, scr, run

vars == <<NOW, flt, ann, nrm, scr, run>>

(* ------------------------------ bounds --------------------------------- *)

MaxLines == 4

MaxBlockBody == 3

MaxFeedBody == 2

MaxNormLines == 2

MaxNormEvents == 2

MaxPage == 4

MaxMainPage == 2

MaxElapsed == 1

(* --------------------------- civil calendar ---------------------------- *)

None == [y |-> 0, m |-> 0, d |-> 0, hh |-> 0, mm |-> 0, ss |-> 0]

DT(y, m, d, hh, mm, ss) == [y |-> y, m |-> m, d |-> d, hh |-> hh, mm |-> mm, ss |-> ss]

IsLeap(y) == (y % 4 = 0 /\ y % 100 # 0) \/ y % 400 = 0

DaysInMonth(y, m) ==
    IF m = 2 THEN (IF IsLeap(y) THEN 29 ELSE 28)
    ELSE IF m \in {4, 6, 9, 11} THEN 30 ELSE 31

\* datetime(...) raises ValueError outside these ranges
ValidDate(y, m, d) ==
    /\ y \in 1..9999
    /\ m \in 1..12
    /\ d >= 1
    /\ d <= DaysInMonth(y, m)

ValidTime(hh, mm, ss) == hh \in 0..23 /\ mm \in 0..59 /\ ss \in 0..59

LeapsBefore(y) == ((y - 1) \div 4) - ((y - 1) \div 100) + ((y - 1) \div 400)

DaysBeforeMonth(y, m) ==
    LET cum == <<0, 31, 59, 90, 120, 151, 181, 212, 243, 273, 304, 334>>
    IN cum[m] + (IF m > 2 /\ IsLeap(y) THEN 1 ELSE 0)

\* days since 2000-01-01 (a Saturday)
DayNumber(y, m, d) ==
    365 * (y - 2000) + (LeapsBefore(y) - LeapsBefore(2000)) + DaysBeforeMonth(y, m) + (d - 1)

\* the instant of an aware UTC datetime, in seconds since 2000-01-01T00:00:00Z:
\* what datetime's comparison operators compare
Instant(dt) ==
    ((DayNumber(dt.y, dt.m, dt.d) * 24 + dt.hh) * 60 + dt.mm) * 60 + dt.ss

IsSunday(y, m, d) == DayNumber(y, m, d) % 7 = 1

\* the day after a civil date
NextDay(dt) ==
    IF dt.d < DaysInMonth(dt.y, dt.m) THEN [dt EXCEPT !.d = dt.d + 1]
    ELSE IF dt.m < 12 THEN [dt EXCEPT !.d = 1, !.m = dt.m + 1]
    ELSE [dt EXCEPT !.d = 1, !.m = 1, !.y = dt.y + 1]

\* a later reading of the clock: dt + timedelta(seconds=n), 0 <= n < 60
AddSeconds(dt, n) ==
    IF dt.ss + n < 60 THEN [dt EXCEPT !.ss = dt.ss + n]
    ELSE LET total == dt.hh * 60 + dt.mm + 1
         IN IF total < 1440
            THEN [dt EXCEPT !.hh = total \div 60, !.mm = total % 60, !.ss = dt.ss + n - 60]
            ELSE [NextDay(dt) EXCEPT !.hh = 0, !.mm = 0, !.ss = dt.ss + n - 60]

\* dt + timedelta(minutes=n), 0 <= n < 1440
AddMinutes(dt, n) ==
    LET total == dt.hh * 60 + dt.mm + n
    IN IF total < 1440
       THEN [dt EXCEPT !.hh = total \div 60, !.mm = total % 60]
       ELSE [NextDay(dt) EXCEPT !.hh = (total - 1440) \div 60, !.mm = (total - 1440) % 60]

(* ------------------------------- lines --------------------------------- *)

MAJOR_KEYWORDS ==
    { "Consumer Price Index", "Employment Situation", "Producer Price Index",
      "Gross Domestic Product", "Personal Income and Outlays" }

NoVal == [form |-> "text", y |-> 0, m |-> 0, d |-> 0, hh |-> 0, mm |-> 0, ss |-> 0]

DateVal(y, m, d) == [form |-> "date", y |-> y, m |-> m, d |-> d, hh |-> 0, mm |-> 0, ss |-> 0]

TimeVal(form, dt) ==
    [form |-> form, y |-> dt.y, m |-> dt.m, d |-> dt.d, hh |-> dt.hh, mm |-> dt.mm, ss |-> dt.ss]

Line(head, text, val) == [head |-> head, text |-> text, val |-> val]

\* line.startswith(prefix), for the prefixes the code tests
StartsWith(line, prefix) ==
    CASE prefix = "BEGIN:VEVENT" -> line.head = "BEGIN:VEVENT"
      [] prefix = "END:VEVENT" -> line.head = "END:VEVENT"
      [] prefix = "DTSTART" ->
            line.head \in { "DTSTART", "DTSTART:", "DTSTART;VALUE=DATE:",
                            "DTSTART;TZID=US-Eastern:" }
      [] prefix = "DTSTART;TZID=US-Eastern:" -> line.head = "DTSTART;TZID=US-Eastern:"
      [] prefix = "DTEND;TZID=US-Eastern:" -> line.head = "DTEND;TZID=US-Eastern:"
      [] prefix = "DESCRIPTION:" -> line.head = "DESCRIPTION:"
      [] OTHER -> FALSE

\* ":" in line
HasColon(line) == line.head # "DTSTART"

\* any(k in line for k in MAJOR_KEYWORDS)
HasKeyword(line) == \E k \in MAJOR_KEYWORDS : line.text = k

\* datetime.strptime(value, fmt) succeeds: value has the format's shape and
\* its fields are a real date and time
Strptime(val, form) ==
    /\ val.form = form
    /\ ValidDate(val.y, val.m, val.d)
    /\ ValidTime(val.hh, val.mm, val.ss)

ValueDT(val) == DT(val.y, val.m, val.d, val.hh, val.mm, val.ss)

parse_dtstart(line) ==
    IF ~HasColon(line) THEN None
    ELSE IF line.val.form \in {"naive", "utc"}
         THEN (IF line.val.form = "utc"
               THEN (IF Strptime(line.val, "utc") THEN ValueDT(line.val) ELSE None)
               ELSE (IF Strptime(line.val, "naive") THEN ValueDT(line.val) ELSE None))
         ELSE (IF Strptime(line.val, "date") THEN ValueDT(line.val) ELSE None)

(* --------------------------- annotate_source --------------------------- *)

SourceNote(source_tag) == Line("  (Source: ", source_tag, NoVal)

SourceComment(source_tag) == Line("COMMENT:Source=", source_tag, NoVal)

\* a slip in the insertion index: list.insert(0, x)
ListInsertFront(s, i, x) == <<x>> \o s

\* list.insert(i, x)
ListInsert(s, i, x) ==
    IF i >= Len(s) THEN Append(s, x)
    ELSE SubSeq(s, 1, i) \o <<x>> \o SubSeq(s, i + 1, Len(s))

RECURSIVE AnnotateLoop(_, _, _, _)
\* the for loop of annotate_source from line k on: the pair <<out, inserted>>
AnnotateLoop(event_lines, source_tag, k, acc) ==
    IF k > Len(event_lines) THEN acc
    ELSE LET line == event_lines[k]
             out1 == Append(acc[1], line)
         IN IF ~acc[2] /\ StartsWith(line, "DESCRIPTION:")
            THEN AnnotateLoop(event_lines, source_tag, k + 1,
                              <<Append(out1, SourceNote(source_tag)), TRUE>>)
            ELSE AnnotateLoop(event_lines, source_tag, k + 1, <<out1, acc[2]>>)

annotate_source(event_lines, source_tag) ==
    LET r == AnnotateLoop(event_lines, source_tag, 1, <<(<<>>), FALSE>>)
    IN IF ~r[2] THEN ListInsert(r[1], 1, SourceComment(source_tag)) ELSE r[1]

(* ---------------------------- filter_events ---------------------------- *)

\* the recency test left out
RetainAnyDate(include, event_dt, now) == include

\* include and (event_dt is None or event_dt >= NOW)
Retain(include, event_dt, now) ==
    include /\ (event_dt = None \/ Instant(event_dt) >= Instant(now))

\* the locals of filter_events before its loop; decided is a history of the
\* END:VEVENT lines handled: the accumulated block, whether a BEGIN:VEVENT
\* had opened it, and whether it was appended to events
FilterStart(source_tag) ==
    [ source_tag |-> source_tag, events |-> <<>>, current |-> <<>>,
      in_event |-> FALSE, include |-> FALSE, event_dt |-> None,
      nread |-> 0, decided |-> <<>> ]

\* what END:VEVENT resets: in_event, current and event_dt
EndReset(s) == [s EXCEPT !.in_event = FALSE, !.current = <<>>, !.event_dt = None]

\* one iteration of the for loop of filter_events
FilterStep(s, line, now) ==
    LET t == [s EXCEPT !.nread = s.nread + 1]
    IN IF StartsWith(line, "BEGIN:VEVENT")
       THEN [t EXCEPT !.in_event = TRUE, !.current = <<line>>,
                      !.include = FALSE, !.event_dt = None]
       ELSE IF StartsWith(line, "END:VEVENT")
       THEN LET block == Append(s.current, line)
                keep == Retain(s.include, s.event_dt, now)
                u == [t EXCEPT !.current = block,
                               !.events = IF keep
                                          THEN Append(s.events, annotate_source(block, s.source_tag))
                                          ELSE s.events,
                               !.decided = Append(s.decided,
                                                  [block |-> block, opened |-> s.in_event,
                                                   kept |-> keep])]
            IN EndReset(u)
       ELSE IF s.in_event
       THEN LET dt == IF StartsWith(line, "DTSTART") THEN parse_dtstart(line) ELSE None
            IN [t EXCEPT !.event_dt = IF dt # None THEN dt ELSE s.event_dt,
                         !.include = s.include \/ HasKeyword(line),
                         !.current = Append(s.current, line)]
       ELSE t

RECURSIVE FilterLoop(_, _, _, _)
FilterLoop(s, lines, k, now) ==
    IF k > Len(lines) THEN s
    ELSE FilterLoop(FilterStep(s, lines[k], now), lines, k + 1, now)

filter_events(lines, source_tag, now) ==
    FilterLoop(FilterStart(source_tag), lines, 1, now).events

(* --------------------- normalize_bls_events_to_utc --------------------- *)

\* US/Eastern in the tz database, for the years the inputs hold: local mean
\* time (UTC-4:56) until 1883-11-18, and from 2007 on daylight time from the
\* second Sunday of March 02:00 to the first Sunday of November 02:00.
DstStartDay(y) == CHOOSE d \in 8..14 : IsSunday(y, 3, d)

DstEndDay(y) == CHOOSE d \in 1..7 : IsSunday(y, 11, d)

IsLocalMeanTime(dt) ==
    dt.y < 1883 \/ (dt.y = 1883 /\ (dt.m < 11 \/ (dt.m = 11 /\ dt.d < 18)))

\* the zone localize(dt) attaches with its default is_dst=False: the hour
\* skipped in March and the hour repeated in November resolve to standard time
IsDaylight(dt) ==
    /\ \/ dt.m > 3
       \/ dt.m = 3 /\ (dt.d > DstStartDay(dt.y) \/ (dt.d = DstStartDay(dt.y) /\ dt.hh >= 3))
    /\ \/ dt.m < 11
       \/ dt.m = 11 /\ (dt.d < DstEndDay(dt.y) \/ (dt.d = DstEndDay(dt.y) /\ dt.hh < 1))

\* a zone table that knows standard time only
StandardOffsetOnly(dt) == 300

\* minutes to add to the wall clock: -utcoffset() of EASTERN.localize(dt)
EasternOffset(dt) ==
    IF IsLocalMeanTime(dt) THEN 296
    ELSE IF IsDaylight(dt) THEN 240 ELSE 300

\* local_dt.astimezone(timezone.utc)
ToUtc(local_naive) == AddMinutes(local_naive, EasternOffset(local_naive))

\* the value rewritten but the qualifier kept
QualifiedLine(prop, utc_dt) ==
    Line(IF prop = "DTSTART:" THEN "DTSTART;TZID=US-Eastern:" ELSE "DTEND;TZID=US-Eastern:",
         "", TimeVal("naive", utc_dt))

\* prop + utc_dt.strftime("%Y%m%dT%H%M%SZ")
UtcLine(prop, utc_dt) == Line(prop, "", TimeVal("utc", utc_dt))

\* the body of the inner loop of normalize_bls_events_to_utc
NormalizeLine(line) ==
    IF StartsWith(line, "DTSTART;TZID=US-Eastern:")
    THEN (IF Strptime(line.val, "naive")
          THEN UtcLine("DTSTART:", ToUtc(ValueDT(line.val)))
          ELSE line)
    ELSE IF StartsWith(line, "DTEND;TZID=US-Eastern:")
    THEN (IF Strptime(line.val, "naive")
          THEN UtcLine("DTEND:", ToUtc(ValueDT(line.val)))
          ELSE line)
    ELSE line

\* the reassignment forgotten: the events come back as they were
NormalizeNothing(events) == events

normalize_bls_events_to_utc(events) ==
    [e \in 1..Len(events) |-> [i \in 1..Len(events[e]) |-> NormalizeLine(events[e][i])]]

(* -------------------------- scrape_fomc_events ------------------------- *)

\* The page text is a sequence of tokens: an occurrence of a year's header
\* "<year> FOMC Meetings", or a match of month_re with its three groups.

Header(year) == [kind |-> "header", year |-> year, month |-> "", day1 |-> 0, day2 |-> 0]

Match(month, day1, day2) ==
    [kind |-> "match", year |-> 0, month |-> month, day1 |-> day1, day2 |-> day2]

years_to_scan == <<2025, 2026, 2027>>

MONTH_MAP ==
    [ n \in { "January", "February", "March", "April", "May", "June", "July", "August",
              "September", "October", "November", "December" } |->
        CASE n = "January" -> 1 [] n = "February" -> 2 [] n = "March" -> 3
          [] n = "April" -> 4 [] n = "May" -> 5 [] n = "June" -> 6
          [] n = "July" -> 7 [] n = "August" -> 8 [] n = "September" -> 9
          [] n = "October" -> 10 [] n = "November" -> 11 [] n = "December" -> 12 ]

\* text.find(header): the first position of the year's header, 0 for -1
Find(text, year) ==
    LET hits == { i \in 1..Len(text) : text[i] = Header(year) }
    IN IF hits = {} THEN 0 ELSE CHOOSE i \in hits : \A j \in hits : i <= j

\* end_idx: the first header of a later year after idx, or the end of the text
SectionEnd(text, year, idx) ==
    LET later == { Find(text, years_to_scan[k]) : k \in { k \in 1..Len(years_to_scan) : years_to_scan[k] > year } }
        after == { t \in later : t # 0 /\ t > idx } \cup { Len(text) + 1 }
    IN CHOOSE t \in after : \A u \in after : t <= u

\* the first number of the range taken for the day
FirstDay(tok) == tok.day1

\* day2 = int(day2_str)
MatchDay(tok) == tok.day2

\* the test of seen_dates left out
NeverSeen(date_key, seen_dates) == FALSE

\* date_key in seen_dates
Seen(date_key, seen_dates) == date_key \in seen_dates

\* the block synthesized for one meeting date
FomcEvent(year, date_key, now_str) ==
    << Line("BEGIN:VEVENT", "", NoVal),
       Line("UID:", "FOMC-@us-macro", date_key),
       Line("DTSTAMP:", "", now_str),
       Line("DTSTART;VALUE=DATE:", "", date_key),
       Line("SUMMARY:", "FOMC Meeting - Rate Decision", NoVal),
       Line("DESCRIPTION:", "Federal Open Market Committee meeting (Source: Federal Reserve FOMC calendar)",
            [NoVal EXCEPT !.y = year]),
       Line("END:VEVENT", "", NoVal) >>

\* the body of the loop over month_re.finditer(section) for one match
ScrapeMatch(acc, year, tok, now, now_str) ==
    LET month == MONTH_MAP[tok.month]
        day2 == MatchDay(tok)
        dt == DT(year, month, day2, 0, 0, 0)
        date_key == DateVal(year, month, day2)
    IN IF ~ValidDate(year, month, day2) THEN acc
       ELSE IF Instant(dt) < Instant(now) THEN acc
       ELSE IF Seen(date_key, acc.seen_dates) THEN acc
       ELSE [ events |-> Append(acc.events, FomcEvent(year, date_key, now_str)),
              seen_dates |-> acc.seen_dates \cup {date_key} ]

RECURSIVE ScanSection(_, _, _, _, _, _, _)
\* the matches of text[k:end_idx], in order
ScanSection(acc, year, text, k, end_idx, now, now_str) ==
    IF k >= end_idx THEN acc
    ELSE ScanSection(IF text[k].kind = "match"
                     THEN ScrapeMatch(acc, year, text[k], now, now_str)
                     ELSE acc,
                     year, text, k + 1, end_idx, now, now_str)

RECURSIVE ScanYears(_, _, _, _, _)
\* the loop over years_to_scan from its yi-th year on
ScanYears(acc, yi, text, now, now_str) ==
    IF yi > Len(years_to_scan) THEN acc
    ELSE LET year == years_to_scan[yi]
             idx == Find(text, year)
         IN IF idx = 0 THEN ScanYears(acc, yi + 1, text, now, now_str)
            ELSE ScanYears(ScanSection(acc, year, text, idx, SectionEnd(text, year, idx), now, now_str),
                           yi + 1, text, now, now_str)

scrape_fomc_events(text, now, now_str) ==
    ScanYears([events |-> <<>>, seen_dates |-> {}], 1, text, now, now_str).events

\* now_str: datetime.now(timezone.utc) read inside scrape_fomc_events, some
\* seconds after NOW was read at import, formatted %Y%m%dT%H%M%SZ
NowStr(now, elapsed) == TimeVal("utc", AddSeconds(now, elapsed))

(* --------------------------------- main -------------------------------- *)

BLS_URL == "https://www.bls.gov/schedule/news_release/bls.ics"

BEA_URL == "https://www.bea.gov/news/schedule/ics/online-calendar-subscription.ics"

FOMC_URL == "https://www.federalreserve.gov/monetarypolicy/fomccalendars.htm"

URLS == {BLS_URL, BEA_URL, FOMC_URL}

\* an error status swallowed
NeverRaises(resp) == FALSE

\* resp.raise_for_status() raises
RaisesForStatus(resp) == ~resp.ok

\* fetch_lines: the lines of the body, unless the status raises
fetch_lines(resp) == [raised |-> RaisesForStatus(resp), lines |-> resp.body]

CalendarHeader ==
    << Line("BEGIN:VCALENDAR", "", NoVal),
       Line("VERSION:", "2.0", NoVal),
       Line("PRODID:", "-//YourGitHubUser//US Macro Calendar//EN", NoVal),
       Line("CALSCALE:", "GREGORIAN", NoVal),
       Line("METHOD:", "PUBLISH", NoVal),
       Line("X-WR-CALNAME:", "US Macro Major Events", NoVal) >>

CalendarFooter == << Line("END:VCALENDAR", "", NoVal) >>

RECURSIVE Flatten(_)
\* the lines of a list of events, in order
Flatten(events) ==
    IF events = <<>> THEN <<>> ELSE Head(events) \o Flatten(Tail(events))

\* what main writes to us_macro.ics
Written(bls_events, bea_events, fomc_events) ==
    CalendarHeader \o Flatten(bls_events \o bea_events \o fomc_events) \o CalendarFooter

(* ------------------------------- inputs -------------------------------- *)

\* the instants at which a run may start
NowChoices == { DT(2026, 11, 1, 6, 30, 0), DT(2026, 12, 9, 0, 0, 0) }

BeginLine == Line("BEGIN:VEVENT", "", NoVal)

EndLine == Line("END:VEVENT", "", NoVal)

\* the lines a feed is drawn from in the extractor's specification
FilterLines ==
    { BeginLine, EndLine,
      Line("BEGIN:VEVENT", "Consumer Price Index", NoVal),
      Line("END:VEVENT", "Consumer Price Index", NoVal),
      Line("SUMMARY:", "Personal Income and Outlays", NoVal),
      Line("SUMMARY:", "Job Openings", NoVal),
      Line("DESCRIPTION:", "Gross Domestic Product", NoVal),
      Line("DTSTART:", "", TimeVal("utc", DT(2025, 1, 7, 13, 30, 0))),
      Line("DTSTART:", "", TimeVal("naive", DT(2026, 11, 1, 6, 30, 0))),
      Line("DTSTART;VALUE=DATE:", "", DateVal(2027, 1, 28)),
      Line("DTSTART;TZID=US-Eastern:", "", TimeVal("naive", DT(2026, 2, 30, 8, 30, 0))) }

Idle == [pc |-> "idle"]

SeqsUpTo(S, n) == UNION { [1..k -> S] : k \in 0..n }

\* the lines between the markers of the blocks annotate_source is applied to
BlockLines ==
    { Line("DESCRIPTION:", "Gross Domestic Product", NoVal),
      Line("DESCRIPTION:", "Job Openings", NoVal),
      Line("SUMMARY:", "Consumer Price Index", NoVal),
      Line("DTSTART;VALUE=DATE:", "", DateVal(2027, 1, 28)) }

EventBlocks == { <<BeginLine>> \o body \o <<EndLine>> : body \in SeqsUpTo(BlockLines, MaxBlockBody) }

(* --------------------- specification: the extractor -------------------- *)

FilterInit ==
    /\ NOW \in NowChoices
    /\ \E tag \in {"BLS", "BEA"} : flt = FilterStart(tag)
    /\ ann = Idle
    /\ nrm = Idle
    /\ scr = Idle
    /\ run = Idle

\* the loop body of filter_events on the next line of the feed
FilterLine ==
    /\ flt.nread < MaxLines
    /\ \E line \in FilterLines : flt' = FilterStep(flt, line, NOW)
    /\ UNCHANGED <<NOW, ann, nrm, scr, run>>

FilterNext == FilterLine

SpecFilter == FilterInit /\ [][FilterNext]_vars

(* -------------------- specification: annotate_source ------------------- *)

AnnotateInit ==
    /\ NOW \in NowChoices
    /\ \E b \in EventBlocks, tag \in {"BLS", "BEA"} :
          ann = [pc |-> "start", event_lines |-> b, source_tag |-> tag, out |-> <<>>]
    /\ flt = Idle
    /\ nrm = Idle
    /\ scr = Idle
    /\ run = Idle

Annotate ==
    /\ ann.pc = "start"
    /\ ann' = [ann EXCEPT !.pc = "done",
                          !.out = annotate_source(ann.event_lines, ann.source_tag)]
    /\ UNCHANGED <<NOW, flt, nrm, scr, run>>

AnnotateNext == Annotate

SpecAnnotate == AnnotateInit /\ [][AnnotateNext]_vars

(* ---------------------- specification: the normalizer ------------------ *)

\* lines of the events whose structure the normalizer must keep
NormLines ==
    { Line("DTSTART;TZID=US-Eastern:", "", TimeVal("naive", DT(2026, 7, 31, 20, 30, 0))),
      Line("DTEND;TZID=US-Eastern:", "", TimeVal("naive", DT(2026, 2, 30, 8, 30, 0))),
      Line("SUMMARY:", "Employment Situation", NoVal) }

\* wall-clock values: every day number of every month (real or not) in a
\* year of local mean time and in years of the current rules
WallYears == {1800, 2007, 2026, 2037}

WallHours == {0, 1, 2, 3, 12, 19, 20, 23}

WallValues ==
    { TimeVal("naive", DT(y, m, d, hh, mm, 0)) :
        y \in WallYears, m \in 1..12, d \in 1..31, hh \in WallHours, mm \in {30} }

NormInputs ==
    SeqsUpTo(SeqsUpTo(NormLines, MaxNormLines), MaxNormEvents)
    \cup { << <<Line("DTSTART;TZID=US-Eastern:", "", v)>> >> : v \in WallValues }
    \cup { << <<Line("DTEND;TZID=US-Eastern:", "", TimeVal("naive", DT(2026, 12, 31, 19, 0, 59))),
               Line("DTSTART;TZID=US-Eastern:", "", TimeVal("utc", DT(2026, 1, 9, 8, 30, 0))),
               Line("DTSTART:", "", TimeVal("naive", DT(2026, 1, 9, 8, 30, 0)))>> >> }

NormalizeInit ==
    /\ NOW \in NowChoices
    /\ \E evs \in NormInputs : nrm = [pc |-> "start", events |-> evs, out |-> <<>>, again |-> <<>>]
    /\ flt = Idle
    /\ ann = Idle
    /\ scr = Idle
    /\ run = Idle

Normalize ==
    /\ nrm.pc = "start"
    /\ nrm' = [nrm EXCEPT !.pc = "once", !.out = normalize_bls_events_to_utc(nrm.events)]
    /\ UNCHANGED <<NOW, flt, ann, scr, run>>

\* the normalizer applied to its own output
NormalizeAgain ==
    /\ nrm.pc = "once"
    /\ nrm' = [nrm EXCEPT !.pc = "twice", !.again = normalize_bls_events_to_utc(nrm.out)]
    /\ UNCHANGED <<NOW, flt, ann, scr, run>>

NormalizeNext == Normalize \/ NormalizeAgain

SpecNormalize == NormalizeInit /\ [][NormalizeNext]_vars

(* ------------------------- claims: the normalizer ---------------------- *)

Qualified(line) ==
    StartsWith(line, "DTSTART;TZID=US-Eastern:") \/ StartsWith(line, "DTEND;TZID=US-Eastern:")

Converts(line) == Qualified(line) /\ Strptime(line.val, "naive")

Unqualified(line) ==
    IF StartsWith(line, "DTSTART;TZID=US-Eastern:") THEN "DTSTART:" ELSE "DTEND:"

\* the places <<e, i>> of the lines of a list of events
Places(events) == { <<e, i>> \in (1..Len(events)) \X (1..8) : i <= Len(events[e]) }

\* C9: the normalizer keeps the number and order of events and of lines,
\* leaves byte-identical every line that lacks the qualifier or whose value
\* does not parse, rewrites the others in place, and applied to its own
\* output returns it unchanged.
C9_NoOpAndIdempotent ==
    /\ nrm.pc \in {"once", "twice"} =>
          /\ Len(nrm.out) = Len(nrm.events)
          /\ \A e \in 1..Len(nrm.events) : Len(nrm.out[e]) = Len(nrm.events[e])
          /\ \A p \in Places(nrm.events) :
                LET line == nrm.events[p[1]][p[2]]
                    new == nrm.out[p[1]][p[2]]
                IN IF Converts(line)
                   THEN new.head = Unqualified(line) /\ new.val.form = "utc"
                   ELSE new = line
    /\ nrm.pc = "twice" => nrm.again = nrm.out

\* an event with a rewritten line next to an unparseable qualified one,
\* normalized twice
C9_Witness ==
    /\ nrm.pc = "twice"
    /\ \E p \in Places(nrm.events), q \in Places(nrm.events) :
          /\ p[1] = q[1]
          /\ Converts(nrm.events[p[1]][p[2]])
          /\ Qualified(nrm.events[q[1]][q[2]]) /\ ~Converts(nrm.events[q[1]][q[2]])

\* the seconds from reading a to reading b of one clock
SecondsBetween(a, b) ==
    (DayNumber(b.y, b.m, b.d) - DayNumber(a.y, a.m, a.d)) * 86400
    + ((b.hh - a.hh) * 60 + (b.mm - a.mm)) * 60 + (b.ss - a.ss)

\* a date strictly inside, or strictly outside, the daylight-time part of its year
DaylightDate(v) ==
    /\ v.m > 3 \/ (v.m = 3 /\ v.d > DstStartDay(v.y))
    /\ v.m < 11 \/ (v.m = 11 /\ v.d < DstEndDay(v.y))

StandardDate(v) ==
    \/ v.m < 3 \/ (v.m = 3 /\ v.d < DstStartDay(v.y))
    \/ v.m > 11 \/ (v.m = 11 /\ v.d > DstEndDay(v.y))

\* the line was rewritten to the explicit-UTC form of the instant 4 hours
\* (daylight date) or 5 hours (standard date) after its wall-clock value
ShiftedBy4or5(line, new) ==
    LET shift == SecondsBetween(ValueDT(line.val), ValueDT(new.val))
    IN /\ new.head = Unqualified(line)
       /\ new.val.form = "utc"
       /\ new.text = ""
       /\ ValidDate(new.val.y, new.val.m, new.val.d)
       /\ ValidTime(new.val.hh, new.val.mm, new.val.ss)
       /\ shift \in {4 * 3600, 5 * 3600}
       /\ DaylightDate(line.val) => shift = 4 * 3600
       /\ StandardDate(line.val) => shift = 5 * 3600

PageTokens ==
    { Header(2025), Header(2026), Header(2027),
      Match("January", 27, 28), Match("December", 8, 9),
      Match("February", 28, 30), Match("November", 31, 1) }

Pages == SeqsUpTo(PageTokens, MaxPage)

ScrapeInit ==
    /\ NOW \in NowChoices
    /\ \E text \in Pages : scr = [pc |-> "start", text |-> text, events |-> <<>>, now_str |-> NoVal]
    /\ flt = Idle
    /\ ann = Idle
    /\ nrm = Idle
    /\ run = Idle

\* requests.get or raise_for_status raises: no events are returned
ScrapeFetchFails ==
    /\ scr.pc = "start"
    /\ RaisesForStatus([ok |-> FALSE, body |-> <<>>])
    /\ scr' = [scr EXCEPT !.pc = "failed"]
    /\ UNCHANGED <<NOW, flt, ann, nrm, run>>

\* the page is fetched and scanned
Scrape ==
    /\ scr.pc = "start"
    /\ ~RaisesForStatus([ok |-> TRUE, body |-> scr.text])
    /\ \E elapsed \in 0..MaxElapsed :
          scr' = [scr EXCEPT !.pc = "done",
                             !.now_str = NowStr(NOW, elapsed),
                             !.events = scrape_fomc_events(scr.text, NOW, NowStr(NOW, elapsed))]
    /\ UNCHANGED <<NOW, flt, ann, nrm, run>>

ScrapeNext == ScrapeFetchFails \/ Scrape

SpecScrape == ScrapeInit /\ [][ScrapeNext]_vars

(* ------------------------- specification: main ------------------------- *)

\* the lines between the markers of a feed's event
FeedLines ==
    { Line("SUMMARY:", "Consumer Price Index", NoVal),
      Line("DTSTART;TZID=US-Eastern:", "", TimeVal("naive", DT(2027, 1, 9, 8, 30, 0))),
      Line("DTSTART;TZID=US-Eastern:", "", TimeVal("naive", DT(2027, 2, 30, 8, 30, 0))) }

\* a feed: no event, or one event
Feeds ==
    { <<>> } \cup { <<BeginLine>> \o body \o <<EndLine>> : body \in SeqsUpTo(FeedLines, MaxFeedBody) }

MainPages == SeqsUpTo({ Header(2026), Header(2027), Match("December", 8, 9) }, MaxMainPage)

\* what a GET may answer: the document, or an error status
Responses(bodies) == { [ok |-> TRUE, body |-> b] : b \in bodies } \cup { [ok |-> FALSE, body |-> <<>>] }

\* the output file left by an earlier run
OldFile == CalendarHeader \o CalendarFooter

MainInit ==
    /\ NOW \in NowChoices
    /\ run = [ pc |-> "fetch_bls", bls_lines |-> <<>>, bea_lines |-> <<>>,
               bls_events |-> <<>>, bea_events |-> <<>>, fomc_events |-> <<>>,
               file |-> [opened |-> FALSE, lines |-> OldFile],
               attempts |-> [u \in URLS |-> 0],
               status |-> [u \in URLS |-> "none"] ]
    /\ flt = Idle
    /\ ann = Idle
    /\ nrm = Idle
    /\ scr = Idle

\* the GET of one URL answered by resp
Got(r, url, resp) ==
    [r EXCEPT !.attempts[url] = r.attempts[url] + 1,
              !.status[url] = IF resp.ok THEN "ok" ELSE "failed"]

\* bls_lines = fetch_lines(BLS_URL)
FetchBLS ==
    /\ run.pc = "fetch_bls"
    /\ \E resp \in Responses(Feeds) :
          LET got == fetch_lines(resp)
          IN run' = IF got.raised
                    THEN [Got(run, BLS_URL, resp) EXCEPT !.pc = "aborted"]
                    ELSE [Got(run, BLS_URL, resp) EXCEPT !.pc = "fetch_bea", !.bls_lines = got.lines]
    /\ UNCHANGED <<NOW, flt, ann, nrm, scr>>

\* bea_lines = fetch_lines(BEA_URL)
FetchBEA ==
    /\ run.pc = "fetch_bea"
    /\ \E resp \in Responses(Feeds) :
          LET got == fetch_lines(resp)
          IN run' = IF got.raised
                    THEN [Got(run, BEA_URL, resp) EXCEPT !.pc = "aborted"]
                    ELSE [Got(run, BEA_URL, resp) EXCEPT !.pc = "filter", !.bea_lines = got.lines]
    /\ UNCHANGED <<NOW, flt, ann, nrm, scr>>

\* the two filter_events calls
FilterFeeds ==
    /\ run.pc = "filter"
    /\ run' = [run EXCEPT !.pc = "normalize",
                          !.bls_events = filter_events(run.bls_lines, "BLS", NOW),
                          !.bea_events = filter_events(run.bea_lines, "BEA", NOW)]
    /\ UNCHANGED <<NOW, flt, ann, nrm, scr>>

\* bls_events = normalize_bls_events_to_utc(bls_events)
NormalizeBLS ==
    /\ run.pc = "normalize"
    /\ run' = [run EXCEPT !.pc = "scrape",
                          !.bls_events = normalize_bls_events_to_utc(run.bls_events)]
    /\ UNCHANGED <<NOW, flt, ann, nrm, scr>>

\* fomc_events = scrape_fomc_events()
ScrapeFOMC ==
    /\ run.pc = "scrape"
    /\ \E resp \in Responses(MainPages), elapsed \in 0..MaxElapsed :
          run' = IF RaisesForStatus(resp)
                 THEN [Got(run, FOMC_URL, resp) EXCEPT !.pc = "aborted"]
                 ELSE [Got(run, FOMC_URL, resp) EXCEPT
                          !.pc = "write",
                          !.fomc_events = scrape_fomc_events(resp.body, NOW, NowStr(NOW, elapsed))]
    /\ UNCHANGED <<NOW, flt, ann, nrm, scr>>

\* the with open("us_macro.ics", "w") block
WriteFile ==
    /\ run.pc = "write"
    /\ run' = [run EXCEPT !.pc = "done",
                          !.file = [opened |-> TRUE,
                                    lines |-> Written(run.bls_events, run.bea_events, run.fomc_events)]]
    /\ UNCHANGED <<NOW, flt, ann, nrm, scr>>

MainNext == FetchBLS \/ FetchBEA \/ FilterFeeds \/ NormalizeBLS \/ ScrapeFOMC \/ WriteFile

SpecMain == MainInit /\ [][MainNext]_vars

(* -------------------------- claims: the scraper ------------------------ *)

\* the civil date of a synthesized event: the value of its DTSTART line
StartOf(ev) == ev[4].val

\* C6: every synthesized event's DTSTAMP is the run's fixed NOW.
C6_StampIsNOW ==
    scr.pc = "done" =>
        \A k \in 1..Len(scr.events) :
            /\ scr.events[k][3].head = "DTSTAMP:"
            /\ scr.events[k][3].val = TimeVal("utc", NOW)

\* C7: no two synthesized events share a calendar date or a UID.
C7_UniqueDates ==
    scr.pc = "done" =>
        \A i \in 1..Len(scr.events), j \in 1..Len(scr.events) :
            i # j => /\ StartOf(scr.events[i]) # StartOf(scr.events[j])
                     /\ scr.events[i][2] # scr.events[j][2]

\* the positions of a year's section: from its first header up to the first
\* header of a later target year that follows it
SectionOf(text, year) ==
    LET heads(y) == { i \in 1..Len(text) : text[i] = Header(y) }
        first(y) == CHOOSE i \in heads(y) : \A j \in heads(y) : i <= j
        laterYears == { y \in {2025, 2026, 2027} : y > year /\ heads(y) # {} }
    IN IF heads(year) = {} THEN {}
       ELSE { i \in first(year)..Len(text) :
                \A y \in laterYears : first(y) > first(year) => i < first(y) }

\* the dates the matches of the page stand for: the section's year, the
\* matched month and the second number of the range, when that is a real
\* date not earlier than NOW
MeetingDates(text) ==
    { DateVal(y, MONTH_MAP[text[i].month], text[i].day2) :
        <<y, i>> \in { p \in {2025, 2026, 2027} \X (1..Len(text)) :
                         /\ p[2] \in SectionOf(text, p[1])
                         /\ text[p[2]].kind = "match"
                         /\ ValidDate(p[1], MONTH_MAP[text[p[2]].month], text[p[2]].day2)
                         /\ Instant(DT(p[1], MONTH_MAP[text[p[2]].month], text[p[2]].day2, 0, 0, 0))
                              >= Instant(NOW) } }

\* the same page matched twice on one future date of one section
C7_Witness ==
    /\ scr.pc = "done"
    /\ Len(scr.events) = 1
    /\ \E i \in 1..Len(scr.text), j \in 1..Len(scr.text) :
          /\ i < j
          /\ scr.text[i] = scr.text[j]
          /\ scr.text[i].kind = "match"
          /\ \E y \in {2025, 2026, 2027} :
                /\ {i, j} \subseteq SectionOf(scr.text, y)
                /\ DateVal(y, MONTH_MAP[scr.text[i].month], scr.text[i].day2) = StartOf(scr.events[1])

\* C8: the synthesized events are dated exactly (section year, matched
\* month, second number of the range) for the matches whose date is real and
\* not earlier than NOW; the first number is never used, and an invalid or
\* past date yields no event.
C8_SecondDayOnly ==
    scr.pc = "done" =>
        /\ { StartOf(scr.events[k]) : k \in 1..Len(scr.events) } = MeetingDates(scr.text)
        /\ \A k \in 1..Len(scr.events) :
              /\ scr.events[k][4].head = "DTSTART;VALUE=DATE:"
              /\ scr.events[k][2] = Line("UID:", "FOMC-@us-macro", StartOf(scr.events[k]))

\* an event dated midnight NOW from the second number of its range, beside
\* a match dropped for an invalid second number and one dropped as past
C8_Witness ==
    /\ scr.pc = "done"
    /\ Len(scr.events) = 1
    /\ StartOf(scr.events[1]) = DateVal(2026, 12, 9)
    /\ NOW = DT(2026, 12, 9, 0, 0, 0)
    /\ \E i \in SectionOf(scr.text, 2026) : scr.text[i] = Match("February", 28, 30)
    /\ \E i \in SectionOf(scr.text, 2026) : scr.text[i] = Match("January", 27, 28)

(* ----------------------------- claims: main ---------------------------- *)

\* a DTSTART line that still carries the Eastern qualifier on a wall-clock timestamp
EasternStart(line) ==
    StartsWith(line, "DTSTART;TZID=US-Eastern:") /\ Strptime(line.val, "naive")

HasEasternStart(events) ==
    \E e \in 1..Len(events) : \E i \in 1..Len(events[e]) : EasternStart(events[e][i])

C5_WriteOnlyAfterAllFetched ==
    /\ \A u \in URLS : run.attempts[u] <= 1
    /\ run.file.opened => \A u \in URLS : run.status[u] = "ok"
    /\ run.pc = "aborted" => run.file = [opened |-> FALSE, lines |-> OldFile]

\* a run aborted at the third fetch, after two feeds were fetched and filtered
C5_Witness ==
    /\ run.pc = "aborted"
    /\ run.status[FOMC_URL] = "failed"
    /\ Len(run.bls_events) = 1

(* ------------------------- claims: the extractor ----------------------- *)

IsMarker(line) == StartsWith(line, "BEGIN:VEVENT") \/ StartsWith(line, "END:VEVENT")

\* the lines of a block that start with DTSTART and parse
ParsedStarts(block) ==
    { i \in 1..Len(block) :
        StartsWith(block[i], "DTSTART") /\ parse_dtstart(block[i]) # None }

\* the start a block resolves to: that of its last parseable DTSTART line
LastStart(block) ==
    IF ParsedStarts(block) = {} THEN None
    ELSE parse_dtstart(block[CHOOSE i \in ParsedStarts(block) :
                                \A j \in ParsedStarts(block) : j <= i])

Recent(block) == LastStart(block) = None \/ Instant(LastStart(block)) >= Instant(NOW)

C4_WellFormedBlocks ==
    /\ \A k \in 1..Len(flt.events) :
          LET e == flt.events[k]
          IN /\ Len(e) >= 2
             /\ StartsWith(e[1], "BEGIN:VEVENT")
             /\ StartsWith(e[Len(e)], "END:VEVENT")
             /\ \A i \in 2..(Len(e) - 1) : ~IsMarker(e[i])
    /\ \A k \in 1..Len(flt.decided) : flt.decided[k].kept => flt.decided[k].opened

(* ------------------------ claims: annotate_source ---------------------- *)

Descriptions(block) == { i \in 1..Len(block) : StartsWith(block[i], "DESCRIPTION:") }

\* block with x put after its line i
InsertedAfter(block, i, x) ==
    SubSeq(block, 1, i) \o <<x>> \o SubSeq(block, i + 1, Len(block))

\* C2: annotate_source adds exactly one line to an event block: the source
\* note right after the first DESCRIPTION line when there is one, otherwise
\* the COMMENT line as the second line of the block.
C2_ExactlyOneAnnotation ==
    ann.pc = "done" =>
        LET b == ann.event_lines
            D == Descriptions(b)
        IN /\ Len(ann.out) = Len(b) + 1
           /\ IF D # {}
              THEN LET f == CHOOSE i \in D : \A j \in D : i <= j
                   IN ann.out = InsertedAfter(b, f, SourceNote(ann.source_tag))
              ELSE ann.out = InsertedAfter(b, 1, SourceComment(ann.source_tag))

\* both cases have happened: a block with two description lines annotated
C2_Witness ==
    /\ ann.pc = "done"
    /\ Cardinality(Descriptions(ann.event_lines)) = 2
    /\ ~StartsWith(ann.event_lines[2], "DESCRIPTION:")

====
